---- MODULE Spec2Model ----
(***************************************************************************)
(* Model of annotateFromGFF.py: parseGFF, the single-pass scan that turns  *)
(* gene / mRNA / CDS / UTR rows of a GFF file into annotation intervals,   *)
(* and the fill that follows the scan.  One action per loop iteration      *)
(* (by row type) and one for the code after the loop.                      *)
(***************************************************************************)
EXTENDS Integers, Sequences, FiniteSets, TLC

VARIABLES
    chrmSizes, promSize, operons, operonDist,   \* parameters of parseGFF
    prev_chrm, prev_end, prev_loc, prev_gene,   \* carried to the next row
    trigger,                                    \* a reverse gene awaits TSS/promoter
    strand, gene, cur_loc,                      \* locals that survive an iteration
    istart, iend, ibound,                       \* istart/iend, and whether bound
    output,                                     \* the list parseGFF returns
    pc,                                         \* "scan", "done" or "error"
    rows,                                       \* the rows read so far
    pre,                                        \* carried state as the last row found it
    emitted                                     \* what the last step appended

vars == <<chrmSizes, promSize, operons, operonDist, prev_chrm, prev_end,
          prev_loc, prev_gene, trigger, strand, gene, cur_loc, istart, iend,
          ibound, output, pc, rows, pre, emitted>>

params == <<chrmSizes, promSize, operons, operonDist>>

(* ---------------------------- bounds ----------------------------------- *)
MaxRows == 3    \* rows read before the input ends
MaxPos == 5     \* length of the longest chromosome of the small size file
MaxSpan == 2    \* a gene row spans one position or MaxSpan + 1 positions

(* ------------------------- input domains ------------------------------- *)
Unbound == "<unbound>"
NoField == "<none>"

SmallSizes == ("chrA" :> MaxPos) @@ ("chrB" :> 3)
WorkedSizes == ("chr1" :> 1000)
WorkedCoords == {400, 600}
UnknownChrm == "chrU"

Configs ==
    [chrmSizes : {SmallSizes}, promSize : {1}, operons : BOOLEAN,
     operonDist : {4}]
    \cup
    [chrmSizes : {WorkedSizes}, promSize : {300}, operons : {TRUE},
     operonDist : {60}]

GeneName(n) == IF n = 1 THEN "G1" ELSE IF n = 2 THEN "G2" ELSE
               IF n = 3 THEN "G3" ELSE IF n = 4 THEN "G4" ELSE "G5"

Row(c, t, s, e, sd, g) ==
    [chrom |-> c, type |-> t, start |-> s, end |-> e, strand |-> sd, geneId |-> g]

\* the indices of the gene rows read so far
GeneIdx == {i \in 1..Len(rows) : rows[i].type = "gene"}

\* the gene row read last; the rows that follow it belong to it
LastGene == rows[CHOOSE i \in GeneIdx : \A j \in GeneIdx : j <= i]

SeenChrms == {rows[i].chrom : i \in 1..Len(rows)}

\* the coordinates rows are drawn from
Pool == IF chrmSizes = WorkedSizes THEN WorkedCoords ELSE 1..MaxPos

CoordsOf(c) ==
    IF c \in DOMAIN chrmSizes
    THEN {p \in Pool : p <= chrmSizes[c]}
    ELSE {p \in Pool : p <= 2}

\* Gene rows come grouped by chromosome, ascending and non-overlapping.
GeneChrms ==
    {c \in DOMAIN chrmSizes \cup {UnknownChrm} :
        \/ GeneIdx = {}
        \/ c = LastGene.chrom
        \/ c \notin SeenChrms}

GeneStarts(c) ==
    {p \in CoordsOf(c) :
        (GeneIdx # {} /\ LastGene.chrom = c) => p > LastGene.end}

GeneEnds(c, p) ==
    {q \in CoordsOf(c) :
        /\ p <= q
        /\ (chrmSizes = SmallSizes) => q \in {p, p + MaxSpan}}

\* mRNA rows repeat the span of their gene.
MRNARows ==
    IF GeneIdx = {} THEN {}
    ELSE {Row(LastGene.chrom, "mRNA", LastGene.start, LastGene.end,
              LastGene.strand, LastGene.geneId)}

\* CDS / UTR rows follow their gene, lie inside it, ascending by start.
SubStarts ==
    LET lastr == rows[Len(rows)]
        lo == IF lastr.type \in {"CDS", "UTR"} THEN lastr.start
                                               ELSE LastGene.start
    IN IF GeneIdx = {} THEN {}
       ELSE {p \in CoordsOf(LastGene.chrom) : lo <= p /\ p <= LastGene.end}

SubEnds(p) == {q \in CoordsOf(LastGene.chrom) : p <= q /\ q <= LastGene.end}

(* ----------------------- intervals and locals -------------------------- *)
Iv(c, s, e, k, g) == [chrom |-> c, start |-> s, end |-> e, kind |-> k, geneId |-> g]

\* the locals an iteration works on
Locals == [out |-> <<>>, istart |-> istart, iend |-> iend, ibound |-> ibound,
           cur_loc |-> cur_loc, err |-> FALSE]

\* cur_loc = k ; output.append([c, s, e, cur_loc, g])
Put(l, c, s, e, k, g) ==
    [l EXCEPT !.out = Append(@, Iv(c, s, e, k, g)), !.cur_loc = k]

\* istart = s ; iend = e ; cur_loc = k ; output.append([c, istart, iend, cur_loc, g])
PutI(l, c, s, e, k, g) ==
    [l EXCEPT !.out = Append(@, Iv(c, s, e, k, g)), !.cur_loc = k,
              !.istart = s, !.iend = e, !.ibound = TRUE]

Fail(l) == [l EXCEPT !.err = TRUE]

(* ------------------ gene row, same chromosome (129-313) ---------------- *)
\* variant: the middle Intergenic is left out when it is empty
HeadToHeadSkipEmpty(l, r) ==
    LET l1 == Put(l, prev_chrm, prev_end, prev_end + 1, "TSS", prev_gene)
        l2 == PutI(l1, prev_chrm, prev_end + 1, prev_end + 1 + promSize,
                   "Promoter", prev_gene)
        l3 == IF prev_end + 1 + promSize + 1 <= r.start - 1 - promSize - 1
              THEN PutI(l2, r.chrom, prev_end + 1 + promSize + 1,
                        r.start - 1 - promSize - 1, "Intergenic", ".")
              ELSE l2
        l4 == PutI(l3, r.chrom, r.start - 1 - promSize - 1, r.start - 1,
                   "Promoter", r.geneId)
    IN Put(l4, prev_chrm, r.start, r.start + 1, "TSS", r.geneId)

\* lines 131-182: a forward gene after a pending reverse gene.  Both arms
\* of the test at line 134 run the same statements.
HeadToHead(l, r) ==
    LET l1 == Put(l, prev_chrm, prev_end, prev_end + 1, "TSS", prev_gene)
        l2 == PutI(l1, prev_chrm, prev_end + 1, prev_end + 1 + promSize,
                   "Promoter", prev_gene)
        l3 == PutI(l2, r.chrom, prev_end + 1 + promSize + 1,
                   r.start - 1 - promSize - 1, "Intergenic", ".")
        l4 == PutI(l3, r.chrom, r.start - 1 - promSize - 1, r.start - 1,
                   "Promoter", r.geneId)
    IN Put(l4, prev_chrm, r.start, r.start + 1, "TSS", r.geneId)

\* lines 191-216 and 229-255: TSS and promoter of the pending reverse gene
PrevPromoter(l, r) ==
    LET l1 == Put(l, prev_chrm, prev_end - 1, prev_end, "TSS", prev_gene)
    IN IF prev_end + 1 + promSize < r.start
       THEN PutI(PutI(l1, prev_chrm, prev_end + 1, prev_end + 1 + promSize,
                      "Promoter", prev_gene),
                 prev_chrm, prev_end + 1 + promSize + 1, r.start - 1,
                 "Intergenic", ".")
       ELSE PutI(l1, prev_chrm, prev_end + 1, r.start - 1, "Promoter", prev_gene)

\* variant: the gap starts on the last position of the previous feature
GapIntergenicFromEnd(l, r) ==
    PutI(l, prev_chrm, prev_end, r.start - 1, "Intergenic", ".")

\* lines 219-226, 299-302, 308-311: the whole gap is intergenic
GapIntergenic(l, r) ==
    PutI(l, prev_chrm, prev_end + 1, r.start - 1, "Intergenic", ".")

\* line 188 and line 265: the arm the code takes as "not operon"
NotOperon(r) == prev_end + operonDist > r.start

\* lines 184-257: a reverse gene after a pending reverse gene
TailToTail(l, r) ==
    IF operons
    THEN IF NotOperon(r) THEN PrevPromoter(l, r) ELSE GapIntergenic(l, r)
    ELSE PrevPromoter(l, r)

\* lines 268-292: promoter and TSS of the current forward gene
CurPromoter(l, r) ==
    IF r.start - 1 - promSize > prev_end
    THEN LET l1 == PutI(l, r.chrom, prev_end + 1, r.start - 1 - promSize,
                        "Intergenic", ".")
             l2 == PutI(l1, r.chrom, r.start - 1 - promSize, r.start - 1,
                        "Promoter", r.geneId)
         IN Put(l2, prev_chrm, r.start, r.start + 1, "TSS", r.geneId)
    ELSE Put(PutI(l, r.chrom, prev_end + 1, r.start - 1, "Promoter", r.geneId),
             prev_chrm, r.start, r.start + 1, "TSS", r.geneId)

\* lines 261-304: a forward gene after a non-pending gene.  The else of
\* line 294 belongs to "if operons"; with operons set and the test of
\* line 265 false no statement runs.
ForwardForward(l, r) ==
    IF operons
    THEN IF NotOperon(r) THEN CurPromoter(l, r) ELSE l
    ELSE GapIntergenic(l, r)

SameChrm(l, r) ==
    IF trigger
    THEN IF r.strand = "+" THEN HeadToHead(l, r) ELSE TailToTail(l, r)
    ELSE IF r.strand = "+" THEN ForwardForward(l, r) ELSE GapIntergenic(l, r)

(* ------------------ gene row, chromosome change (314-392) -------------- *)
\* variant: the promoter is appended without the test of line 339
CloseKnownNoGuard(l, size) ==
    IF trigger
    THEN IF prev_end + 1 + promSize < size
         THEN LET l1 == Put(l, prev_chrm, prev_end, prev_end + 1,
                            "TSS", prev_gene)
                  l2 == PutI(l1, prev_chrm, prev_end + 1,
                             prev_end + 1 + promSize, "Promoter", prev_gene)
              IN PutI(l2, prev_chrm, prev_end + 1 + promSize, size,
                      "Intergenic", ".")
         ELSE PutI(Put(l, prev_chrm, prev_end - 1, prev_end, "TSS", prev_gene),
                   prev_chrm, prev_end + 1, size, "Promoter", prev_gene)
    ELSE PutI(l, prev_chrm, prev_end + 1, size, "Intergenic", ".")

\* lines 317-350: the tail of the previous chromosome, of length size
CloseKnown(l, size) ==
    IF trigger
    THEN IF prev_end + 1 + promSize < size
         THEN LET l1 == Put(l, prev_chrm, prev_end, prev_end + 1,
                            "TSS", prev_gene)
                  l2 == PutI(l1, prev_chrm, prev_end + 1,
                             prev_end + 1 + promSize, "Promoter", prev_gene)
              IN PutI(l2, prev_chrm, prev_end + 1 + promSize, size,
                      "Intergenic", ".")
         ELSE LET l1 == Put(l, prev_chrm, prev_end - 1, prev_end,
                            "TSS", prev_gene)
              IN IF prev_end # size
                 THEN PutI(l1, prev_chrm, prev_end + 1, size,
                           "Promoter", prev_gene)
                 ELSE l1
    ELSE PutI(l, prev_chrm, prev_end + 1, size, "Intergenic", ".")

\* lines 316-350: close the previous chromosome; chrmSizes[prev_chrm]
\* raises KeyError when prev_chrm is not in the size file.
CloseOut(l) ==
    IF prev_chrm = "" THEN l
    ELSE IF prev_chrm \notin DOMAIN chrmSizes THEN Fail(l)
    ELSE CloseKnown(l, chrmSizes[prev_chrm])

\* lines 353-392: the first gene of a chromosome
NewChrm(l, r) ==
    IF r.strand = "+"
    THEN IF r.start - 1 - promSize > 1
         THEN LET l1 == PutI(l, r.chrom, 1, r.start - 1 - promSize,
                             "Intergenic", ".")
                  l2 == IF r.start > 2
                        THEN PutI(l1, r.chrom, r.start - 1 - promSize,
                                  r.start - 1, "Promoter", r.geneId)
                        ELSE l1
              IN Put(l2, r.chrom, r.start, r.start + 1, "TSS", r.geneId)
         ELSE LET l1 == IF r.start > 2
                        THEN PutI(l, r.chrom, 1, r.start - 1, "Promoter", r.geneId)
                        ELSE l
              IN Put(l1, r.chrom, r.start, r.start + 1, "TSS", r.geneId)
    ELSE PutI(l, r.chrom, 1, r.start - 1, "Intergenic", ".")

\* lines 124-396: the body run for a gene row; line 395 reads istart,
\* which raises UnboundLocalError when no statement has bound it yet.
GeneBody(l, r) ==
    LET l1 == IF prev_chrm = r.chrom /\ prev_chrm # ""
              THEN SameChrm(l, r)
              ELSE LET c == CloseOut(l)
                   IN IF c.err THEN c ELSE NewChrm(c, r)
    IN IF l1.err \/ l1.ibound THEN l1 ELSE Fail(l1)

(* ------------------------ CDS and UTR rows (401-434) ------------------- *)
IsUTR(loc) == loc \in {"5'UTR", "3'UTR"}

\* lines 403 and 420
IntronTest(r) ==
    \/ prev_loc = "CDS" /\ prev_end + 1 # r.start
    \/ IsUTR(prev_loc) /\ prev_end + 1 # r.start

\* lines 401-416
CDSBody(l, r) ==
    LET l1 == IF IntronTest(r)
              THEN PutI(l, r.chrom, prev_end + 1,
                        IF r.start - 1 > prev_end + 1 THEN r.start - 1
                                                      ELSE prev_end + 1,
                        "Intron", gene)
              ELSE l
    IN Put(l1, r.chrom, r.start, r.end, "CDS", gene)

\* lines 418-434
UTRBody(l, r) ==
    LET l1 == IF IntronTest(r)
              THEN PutI(l, r.chrom, prev_end + 1, r.start - 1, "Intron", gene)
              ELSE l
    IN IF \/ strand = "+" /\ prev_loc = "TSS"
          \/ strand = "-" /\ (prev_loc = "CDS" \/ IsUTR(prev_loc))
       THEN Put(l1, r.chrom, r.start, r.end, "5'UTR", gene)
       ELSE IF \/ strand = "-" /\ (prev_loc = "Intergenic" \/ prev_loc = "3'UTR")
               \/ strand = "+" /\ prev_loc = "CDS"
            THEN Put(l1, r.chrom, r.start, r.end, "3'UTR", gene)
            ELSE l1

(* --------------------------- after the loop ---------------------------- *)
\* line 444
curChrs == {output[i].chrom : i \in 1..Len(output)}

\* variant: only the chromosomes that are not in curChrs are filled
FillChrmsWithoutGenes == DOMAIN chrmSizes \ curChrs

\* line 446: allChrms.difference() is called without an argument
FillChrms == DOMAIN chrmSizes

\* the orders in which a set can be iterated
Orders(S) ==
    {f \in [1..Cardinality(S) -> S] :
        \A i, j \in 1..Cardinality(S) : i # j => f[i] # f[j]}

\* variant: the fill starts at position 0
FillRowZeroBased(c) == Iv(c, 0, chrmSizes[c], "Intergenic", NoField)

\* line 447: a row of four fields
FillRow(c) == Iv(c, 1, chrmSizes[c], "Intergenic", NoField)

(* ------------------------------ actions -------------------------------- *)
\* variant: new rows are put in front of the list
ExtendFront(out, new) == new \o out

\* output.append(...), in the order of the calls; line 449 returns the
\* list as it is (the sort is commented out)
Extend(out, new) == out \o new

Snapshot ==
    [prev_chrm |-> prev_chrm, prev_end |-> prev_end, prev_loc |-> prev_loc,
     prev_gene |-> prev_gene, trigger |-> trigger, strand |-> strand,
     istart |-> istart, iend |-> iend, ibound |-> ibound, cur_loc |-> cur_loc]

Init ==
    /\ \E cfg \in Configs :
          /\ chrmSizes = cfg.chrmSizes
          /\ promSize = cfg.promSize
          /\ operons = cfg.operons
          /\ operonDist = cfg.operonDist
    /\ prev_chrm = ""
    /\ prev_end = 0
    /\ prev_loc = Unbound
    /\ prev_gene = Unbound
    /\ trigger = FALSE
    /\ strand = Unbound
    /\ gene = Unbound
    /\ cur_loc = Unbound
    /\ istart = 0
    /\ iend = 0
    /\ ibound = FALSE
    /\ output = <<>>
    /\ pc = "scan"
    /\ rows = <<>>
    /\ pre = [prev_chrm |-> "", prev_end |-> 0, prev_loc |-> Unbound,
              prev_gene |-> Unbound, trigger |-> FALSE, strand |-> Unbound,
              istart |-> 0, iend |-> 0, ibound |-> FALSE, cur_loc |-> Unbound]
    /\ emitted = <<>>

\* what every iteration does with the row and its locals (lines 436-440)
Carry(r, l, e) ==
    /\ rows' = Append(rows, r)
    /\ pre' = Snapshot
    /\ emitted' = l.out
    /\ output' = Extend(output, l.out)
    /\ istart' = l.istart
    /\ iend' = l.iend
    /\ ibound' = l.ibound
    /\ cur_loc' = l.cur_loc
    /\ IF l.err
       THEN /\ pc' = "error"
            /\ UNCHANGED <<prev_chrm, prev_end, prev_loc, prev_gene>>
       ELSE /\ pc' = "scan"
            /\ prev_chrm' = r.chrom
            /\ prev_end' = e
            /\ prev_loc' = l.cur_loc
            /\ prev_gene' = gene'
    /\ UNCHANGED params

\* variant: the head-to-head branch does not clear trigger
TriggerAfterKept(r) ==
    IF prev_chrm = r.chrom /\ prev_chrm # "" /\ trigger /\ r.strand = "+"
    THEN trigger
    ELSE r.strand = "-"

\* the value each branch of a gene row leaves in trigger
\* (lines 182, 257, 304, 313, 385, 392)
TriggerAfter(r) ==
    IF prev_chrm = r.chrom /\ prev_chrm # ""
    THEN IF trigger
         THEN IF r.strand = "+" THEN FALSE ELSE TRUE
         ELSE IF r.strand = "+" THEN FALSE ELSE TRUE
    ELSE IF r.strand = "+" THEN FALSE ELSE TRUE

\* variant: a row below the gene level clears trigger
DropPending == trigger' = FALSE /\ UNCHANGED <<strand, gene>>

\* lines 398-434 assign none of strand, gene, trigger
KeepGeneLevel == UNCHANGED <<strand, gene, trigger>>

\* one iteration of the loop on a gene row (lines 116-396, 436-440)
ReadGene ==
    /\ pc = "scan"
    /\ Len(rows) < MaxRows
    /\ \E c \in GeneChrms, sd \in {"+", "-"} :
       \E p \in GeneStarts(c) :
       \E q \in GeneEnds(c, p) :
          LET r == Row(c, "gene", p, q, sd, GeneName(Cardinality(GeneIdx) + 1))
              l == GeneBody(Locals, r)
          IN /\ strand' = r.strand
             /\ gene' = r.geneId
             /\ trigger' = IF l.err /\ l.out = <<>> THEN trigger
                                                    ELSE TriggerAfter(r)
             /\ Carry(r, l, l.iend)

\* one iteration on an mRNA row (lines 398-399, 436-440)
ReadMRNA ==
    /\ pc = "scan"
    /\ Len(rows) < MaxRows
    /\ \E r \in MRNARows :
          /\ KeepGeneLevel
          /\ Carry(r, Locals, r.end)

\* one iteration on a CDS row (lines 401-416, 436-440)
ReadCDS ==
    /\ pc = "scan"
    /\ Len(rows) < MaxRows
    /\ \E p \in SubStarts : \E q \in SubEnds(p) :
          LET r == Row(LastGene.chrom, "CDS", p, q, LastGene.strand,
                       LastGene.geneId)
          IN /\ KeepGeneLevel
             /\ Carry(r, CDSBody(Locals, r), r.end)

\* one iteration on a UTR row (lines 418-434, 436-440)
ReadUTR ==
    /\ pc = "scan"
    /\ Len(rows) < MaxRows
    /\ \E p \in SubStarts : \E q \in SubEnds(p) :
          LET r == Row(LastGene.chrom, "UTR", p, q, LastGene.strand,
                       LastGene.geneId)
          IN /\ KeepGeneLevel
             /\ Carry(r, UTRBody(Locals, r), r.end)

\* end of input: lines 442-449
Finalize ==
    /\ pc = "scan"
    /\ \E f \in Orders(FillChrms) :
          /\ emitted' = [i \in 1..Cardinality(FillChrms) |-> FillRow(f[i])]
          /\ output' = Extend(output, emitted')
    /\ pc' = "done"
    /\ pre' = Snapshot
    /\ UNCHANGED <<params, prev_chrm, prev_end, prev_loc, prev_gene, trigger,
                   strand, gene, cur_loc, istart, iend, ibound, rows>>

Next == ReadGene \/ ReadMRNA \/ ReadCDS \/ ReadUTR \/ Finalize

Spec == Init /\ [][Next]_vars

(* ------------------------- vocabulary of the claims -------------------- *)
LastRow == rows[Len(rows)]

\* the last step was an iteration of the loop on a row of type t
JustRead(t) == pc # "done" /\ rows # <<>> /\ LastRow.type = t

\* the row just read is a gene on the chromosome of the row before it
SameChrmGene == JustRead("gene") /\ pre.prev_chrm = LastRow.chrom

\* the distance between the previous feature and the row just read
Gap == LastRow.start - pre.prev_end - 1

Kinds(seq) == {seq[i].kind : i \in 1..Len(seq)}

Has(seq, k, g) == \E i \in 1..Len(seq) : seq[i].kind = k /\ seq[i].geneId = g

ChrmsWithGene == {rows[i].chrom : i \in GeneIdx}

Covered(c, p) ==
    \E i \in 1..Len(output) :
        /\ output[i].chrom = c
        /\ output[i].start <= p
        /\ p <= output[i].end

Shape(iv) == <<iv.start, iv.end, iv.kind>>

(* ------------------------------- claims -------------------------------- *)
\* C1: with size file {chr1: 1000}, promSize 300 and the rows gene G1 '+'
\* [400,600], CDS [400,600], the finished run has emitted exactly Intergenic
\* [1,99], Promoter [99,399] (G1), TSS [400,401] (G1), CDS [400,600] (G1)
\* and last Intergenic [601,1000].
C1_WorkedExample ==
    ( /\ pc = "done"
      /\ chrmSizes = WorkedSizes
      /\ promSize = 300
      /\ rows = << Row("chr1", "gene", 400, 600, "+", "G1"),
                   Row("chr1", "CDS", 400, 600, "+", "G1") >> )
    => /\ Len(output) = 5
       /\ [i \in 1..5 |-> Shape(output[i])] =
            << <<1, 99, "Intergenic">>, <<99, 399, "Promoter">>,
               <<400, 401, "TSS">>, <<400, 600, "CDS">>,
               <<601, 1000, "Intergenic">> >>
       /\ \A i \in 1..5 : output[i].chrom = "chr1"
       /\ \A i \in 2..4 : output[i].geneId = "G1"

\* C2: with operons set, a reverse gene that follows a pending reverse gene
\* on the same chromosome at a gap below operonDist emits exactly one
\* interval, the Intergenic [prev_end+1, start-1].
C2_OperonSuppression ==
    ( /\ SameChrmGene
      /\ pc = "scan"
      /\ LastRow.strand = "-"
      /\ pre.trigger
      /\ operons
      /\ Gap >= 0
      /\ Gap < operonDist )
    => emitted = << Iv(LastRow.chrom, pre.prev_end + 1, LastRow.start - 1,
                       "Intergenic", ".") >>

\* the Operon Merge Policy as the specification states it (section 4.3)
PolicyMerge == operons /\ Gap < operonDist

\* C3: a forward gene after a non-pending gene on the same chromosome that
\* is not operon-merged gets a Promoter of size promSize ending at start-1
\* when the gap is at least promSize+1, and otherwise the Promoter
\* [prev_end+1, start-1] with no Intergenic.
C3_PromoterSizing ==
    ( /\ SameChrmGene
      /\ pc = "scan"
      /\ LastRow.strand = "+"
      /\ ~pre.trigger
      /\ Gap >= 1
      /\ ~PolicyMerge )
    => IF Gap >= promSize + 1
       THEN \E i \in 1..Len(emitted) :
               /\ emitted[i].kind = "Promoter"
               /\ emitted[i].geneId = LastRow.geneId
               /\ emitted[i].end - emitted[i].start = promSize
               /\ emitted[i].end = LastRow.start - 1
       ELSE /\ \E i \in 1..Len(emitted) :
                  emitted[i] = Iv(LastRow.chrom, pre.prev_end + 1,
                                  LastRow.start - 1, "Promoter", LastRow.geneId)
            /\ "Intergenic" \notin Kinds(emitted)

\* C4: every emitted interval of a chromosome of the size file satisfies
\* 1 <= start <= end <= length.
C4_Containment ==
    \A i \in 1..Len(output) :
        output[i].chrom \in DOMAIN chrmSizes =>
            /\ 1 <= output[i].start
            /\ output[i].start <= output[i].end
            /\ output[i].end <= chrmSizes[output[i].chrom]

C6_NoGeneChrm ==
    pc = "done" =>
        \A c \in DOMAIN chrmSizes \ ChrmsWithGene :
            LET idx == {i \in 1..Len(output) : output[i].chrom = c}
            IN /\ Cardinality(idx) = 1
               /\ \A i \in idx : Shape(output[i]) = <<1, chrmSizes[c], "Intergenic">>

C6_Witness ==
    /\ pc = "done"
    /\ rows # <<>>
    /\ DOMAIN chrmSizes \ ChrmsWithGene # {}
    /\ ChrmsWithGene \cap DOMAIN chrmSizes # {}

\* C7: the fill after the loop emits no [1, length] interval for a
\* chromosome that had a gene row processed.
C7_FillOnlyUntouched ==
    pc = "done" =>
        \A i \in 1..Len(emitted) : emitted[i].chrom \notin ChrmsWithGene

\* C8: a CDS or UTR row emits an Intron exactly when the preceding kind is
\* CDS or a UTR and prev_end < start - 1; the Intron is then
\* [prev_end+1, start-1] and comes first.
C8_IntronRule ==
    (pc = "scan" /\ (JustRead("CDS") \/ JustRead("UTR")))
    => IF (pre.prev_loc = "CDS" \/ IsUTR(pre.prev_loc))
          /\ pre.prev_end < LastRow.start - 1
       THEN /\ emitted # <<>>
            /\ emitted[1] = Iv(LastRow.chrom, pre.prev_end + 1,
                               LastRow.start - 1, "Intron", LastRow.geneId)
       ELSE "Intron" \notin Kinds(emitted)

\* C9: with operons unset no boundary is merged: a forward gene after a
\* non-pending gene on the same chromosome emits a Promoter and a TSS of
\* its own, a reverse gene after a pending reverse gene emits a TSS and a
\* Promoter of the earlier gene.
C9_OperonsDisabled ==
    (SameChrmGene /\ pc = "scan" /\ ~operons)
    => /\ (LastRow.strand = "+" /\ ~pre.trigger) =>
             /\ Has(emitted, "Promoter", LastRow.geneId)
             /\ Has(emitted, "TSS", LastRow.geneId)
       /\ (LastRow.strand = "-" /\ pre.trigger) =>
             /\ Has(emitted, "TSS", pre.prev_gene)
             /\ Has(emitted, "Promoter", pre.prev_gene)

\* C10: a run in which some row names a chromosome that is not in the size
\* file never finishes normally, also when that chromosome comes last.
C10_UnknownChrmFatal ==
    pc = "done" => \A i \in 1..Len(rows) : rows[i].chrom \in DOMAIN chrmSizes

\* the identifiers of the gene rows read so far
GeneIds == {rows[i].geneId : i \in GeneIdx}

\* C11: every emitted interval has the five fields; geneId is "." on
\* Intergenic and the identifier of a gene on every other kind.
C11_RecordShape ==
    \A i \in 1..Len(output) :
        /\ output[i].geneId # NoField
        /\ output[i].kind = "Intergenic" => output[i].geneId = "."
        /\ output[i].kind # "Intergenic" => output[i].geneId \in GeneIds

\* C12: the output only grows at its end: a step keeps what was emitted
\* before it, in place, and appends what it emits; the fill comes after
\* everything the scan emitted.
C12_AppendOnly ==
    [][ /\ Len(output') >= Len(output)
        /\ SubSeq(output', 1, Len(output)) = output
        /\ SubSeq(output', Len(output) + 1, Len(output')) = emitted' ]_vars

C12_Witness ==
    /\ pc = "done"
    /\ Len(rows) >= 2
    /\ emitted # <<>>
    /\ Len(output) > Len(emitted) + 1

\* C13: an mRNA row emits nothing and leaves prev_loc and prev_end as
\* they were, so the next CDS / UTR row decides as if the row were absent.
C13_MRNATransparent ==
    (JustRead("mRNA") /\ pc = "scan")
    => /\ emitted = <<>>
       /\ prev_loc = pre.prev_loc
       /\ prev_end = pre.prev_end

\* the gene rows after the gene row at index i
LaterGenes(i) == {j \in GeneIdx : j > i}

\* the boundary after the gene row at index i can be operon-merged only
\* when operons is set and the next gene is a reverse gene on the same
\* chromosome
MayMerge(i) ==
    /\ operons
    /\ \E j \in LaterGenes(i) :
          /\ \A k \in LaterGenes(i) : j <= k
          /\ rows[j].chrom = rows[i].chrom
          /\ rows[j].strand = "-"

\* C14: when the run has finished, every reverse gene whose boundary is
\* not operon-merged has a TSS and a Promoter with its identifier in the
\* output, also the last gene of the input.
C14_ReverseGeneClosed ==
    pc = "done" =>
        \A i \in GeneIdx :
            (rows[i].strand = "-" /\ ~MayMerge(i)) =>
                /\ Has(output, "TSS", rows[i].geneId)
                /\ Has(output, "Promoter", rows[i].geneId)

\* C15: a reverse gene after a pending reverse gene on the same chromosome
\* that the merge policy keeps separate emits TSS and Promoter of the
\* earlier gene; the Promoter has size promSize and an Intergenic up to
\* start-1 follows when the gap allows, else the Promoter is
\* [prev_end+1, start-1] and no Intergenic follows; trigger is set.
C15_TailToTailSeparate ==
    ( /\ SameChrmGene
      /\ pc = "scan"
      /\ LastRow.strand = "-"
      /\ pre.trigger
      /\ Gap >= 1
      /\ ~PolicyMerge )
    => /\ trigger
       /\ Len(emitted) >= 2
       /\ emitted[1].kind = "TSS" /\ emitted[1].geneId = pre.prev_gene
       /\ emitted[2].kind = "Promoter" /\ emitted[2].geneId = pre.prev_gene
       /\ emitted[2].start = pre.prev_end + 1
       /\ IF Gap >= promSize + 1
          THEN /\ emitted[2].end - emitted[2].start = promSize
               /\ Len(emitted) = 3
               /\ emitted[3].kind = "Intergenic"
               /\ emitted[3].end = LastRow.start - 1
          ELSE /\ emitted[2].end = LastRow.start - 1
               /\ Len(emitted) = 2

\* C16: after a gene row with start s has been processed, prev_end is
\* s - 1 and prev_chrm is the chromosome of the row.
C16_Anchor ==
    (JustRead("gene") /\ pc = "scan")
    => /\ prev_end = LastRow.start - 1
       /\ prev_chrm = LastRow.chrom

\* C17: a UTR row of a reverse gene after Intergenic or 3'UTR is emitted
\* as 3'UTR; a UTR row of a forward gene is 5'UTR after TSS and 3'UTR
\* after CDS.
C17_UTRLabel ==
    (JustRead("UTR") /\ pc = "scan")
    => LET want == IF LastRow.strand = "-"
                   THEN IF pre.prev_loc \in {"Intergenic", "3'UTR"}
                        THEN "3'UTR" ELSE "any"
                   ELSE IF pre.prev_loc = "TSS" THEN "5'UTR"
                        ELSE IF pre.prev_loc = "CDS" THEN "3'UTR" ELSE "any"
       IN want # "any" =>
             /\ emitted # <<>>
             /\ emitted[Len(emitted)] =
                  Iv(LastRow.chrom, LastRow.start, LastRow.end, want,
                     LastRow.geneId)

\* the row just read is a forward gene facing a pending reverse gene
HeadToHeadCase ==
    SameChrmGene /\ pc = "scan" /\ LastRow.strand = "+" /\ pre.trigger

\* C18: head-to-head, for every gap, the row emits exactly TSS(prev gene),
\* Promoter(prev gene), Intergenic, Promoter(current gene), TSS(current
\* gene) in this order, and trigger is unset afterwards.
C18_HeadToHeadFive ==
    HeadToHeadCase
    => /\ [i \in 1..Len(emitted) |-> <<emitted[i].kind, emitted[i].geneId>>] =
            << <<"TSS", pre.prev_gene>>, <<"Promoter", pre.prev_gene>>,
               <<"Intergenic", ".">>, <<"Promoter", LastRow.geneId>>,
               <<"TSS", LastRow.geneId>> >>
       /\ ~trigger

C18_Witness == HeadToHeadCase /\ Gap >= 0 /\ Gap < 2 * promSize + 2

\* C19: head-to-head, both Promoters have end - start = promSize.
C19_HeadToHeadPromoterSize ==
    HeadToHeadCase
    => \A i \in 1..Len(emitted) :
          emitted[i].kind = "Promoter" =>
              emitted[i].end - emitted[i].start = promSize

\* the row just read is a gene that opens another chromosome
ChrmChange ==
    JustRead("gene") /\ pre.prev_chrm # "" /\ pre.prev_chrm # LastRow.chrom

\* what a chromosome change emits for the previous chromosome, of known
\* length, before anything of the new one; with guard the Promoter is left
\* out when prev_end is the end of the chromosome
CloseOutShape(guard) ==
    LET P == pre.prev_chrm
        L == chrmSizes[P]
        e == pre.prev_end
        tss == emitted[1].kind = "TSS" /\ emitted[1].geneId = pre.prev_gene
        k == IF ~pre.trigger THEN 1
             ELSE IF e + 1 + promSize < L THEN 3
             ELSE IF guard /\ e = L THEN 1 ELSE 2
    IN /\ Len(emitted) > k
       /\ \A i \in 1..Len(emitted) :
             emitted[i].chrom = IF i <= k THEN P ELSE LastRow.chrom
       /\ IF ~pre.trigger
          THEN emitted[1] = Iv(P, e + 1, L, "Intergenic", ".")
          ELSE IF e + 1 + promSize < L
          THEN /\ tss
               /\ emitted[2] = Iv(P, e + 1, e + 1 + promSize, "Promoter",
                                  pre.prev_gene)
               /\ emitted[3].kind = "Intergenic" /\ emitted[3].end = L
          ELSE IF k = 1 THEN tss
          ELSE /\ tss
               /\ emitted[2] = Iv(P, e + 1, L, "Promoter", pre.prev_gene)

\* C20 as stated: at a chromosome change the previous chromosome is closed
\* first; a pending gene gets TSS and Promoter, the Promoter of size
\* promSize with an Intergenic up to the length when it fits and otherwise
\* [prev_end+1, length]; without a pending gene one Intergenic
\* [prev_end+1, length] is emitted.  Stated for inputs without mRNA rows,
\* where prev_end is the end of the last CDS / UTR of the pending gene.
C20_CloseOutAlwaysPromoter ==
    ( /\ ChrmChange
      /\ pre.prev_chrm \in DOMAIN chrmSizes
      /\ \A i \in 1..Len(rows) : rows[i].type # "mRNA" )
    => pc = "scan" /\ CloseOutShape(FALSE)

\* C20 amended: as above, except that a pending gene whose last feature
\* ends at the end of the chromosome gets its TSS and no Promoter.
C20_CloseOut ==
    (ChrmChange /\ pre.prev_chrm \in DOMAIN chrmSizes)
    => pc = "scan" /\ CloseOutShape(TRUE)

C20_Witness ==
    /\ ChrmChange
    /\ pre.prev_chrm \in DOMAIN chrmSizes
    /\ pre.trigger
    /\ pre.prev_end = chrmSizes[pre.prev_chrm]

\* C21: after a gene row has been processed, trigger is set exactly when
\* the row is on the reverse strand, whatever branch handled it.
C21_PendingFlag ==
    (JustRead("gene") /\ pc = "scan") => (trigger <=> LastRow.strand = "-")

C21_Witness == HeadToHeadCase /\ ~trigger /\ Len(emitted) = 5

\* C22: an mRNA, CDS or UTR row leaves trigger, prev_gene and strand as
\* they were; only gene rows change them.
C22_GeneLevelFrame ==
    ((JustRead("mRNA") \/ JustRead("CDS") \/ JustRead("UTR")) /\ pc = "scan")
    => /\ trigger = pre.trigger
       /\ prev_gene = pre.prev_gene
       /\ strand = pre.strand

C22_Witness ==
    /\ JustRead("UTR")
    /\ pre.trigger
    /\ emitted # <<>>
    /\ Len(rows) >= 3

\* what the row just read emitted for its own chromosome
OwnPart == SelectSeq(emitted, LAMBDA iv : iv.chrom = LastRow.chrom)

\* C23: a forward gene with start s that opens a chromosome emits
\* Intergenic [1, s-1-promSize], a Promoter ending at s-1 and the TSS when
\* s-1-promSize > 1; otherwise no Intergenic, the Promoter [1, s-1] when
\* that span is not empty, and the TSS.  No interval starts below 1, the
\* run goes on after the row, also when it is the first of the input, and
\* trigger is unset.
C23_FirstForwardGene ==
    ( /\ JustRead("gene")
      /\ pre.prev_chrm # LastRow.chrom
      /\ LastRow.strand = "+"
      /\ pre.prev_chrm \in DOMAIN chrmSizes \cup {""} )
    => LET s == LastRow.start
           own == OwnPart
           tssLast == own[Len(own)].kind = "TSS" /\ own[Len(own)].start = s
       IN /\ pc = "scan"
          /\ ~trigger
          /\ \A i \in 1..Len(own) :
                own[i].start >= 1 /\ own[i].geneId \in {".", LastRow.geneId}
          /\ IF s - 1 - promSize > 1
             THEN /\ Len(own) = 3
                  /\ Shape(own[1]) = <<1, s - 1 - promSize, "Intergenic">>
                  /\ own[2].kind = "Promoter" /\ own[2].end = s - 1
                  /\ tssLast
             ELSE /\ Len(own) \in {1, 2}
                  /\ tssLast
                  /\ Len(own) = 2 => Shape(own[1]) = <<1, s - 1, "Promoter">>
                  /\ s > 2 => Len(own) = 2
                  /\ s = 1 => Len(own) = 1

\* C24: a reverse gene after a non-pending gene on the same chromosome
\* emits exactly one interval, Intergenic [prev_end+1, start-1] with gene
\* identifier ".", and sets trigger.
C24_ReverseAfterForward ==
    (SameChrmGene /\ pc = "scan" /\ LastRow.strand = "-" /\ ~pre.trigger)
    => /\ emitted = << Iv(LastRow.chrom, pre.prev_end + 1, LastRow.start - 1,
                          "Intergenic", ".") >>
       /\ trigger

C24_Witness ==
    /\ SameChrmGene
    /\ pc = "scan"
    /\ LastRow.strand = "-"
    /\ ~pre.trigger
    /\ Gap >= 1
    /\ pre.prev_loc = "CDS"

====
